---- MODULE Spec2Model ----
(***************************************************************************)
(* Attribute exchange (AX) message codec of openid/ax.py: FetchRequest and *)
(* FetchResponse, their builders (add, addValue, setValues), their         *)
(* serializers (getExtensionArgs) and parsers (parseExtensionArgs,         *)
(* parseAXValues, toTypeURIs).                                             *)
(*                                                                         *)
(* Python values are modelled as follows.                                  *)
(*   str        a TLA+ string; keys such as 'type.' + alias are built with *)
(*              \o and taken apart with SubSeq, as the code does           *)
(*   None / x   an optional value is <<>> (None) or <<x>>                  *)
(*   dict       a function whose domain is the set of keys                 *)
(*   list       a sequence                                                 *)
(* The source is Python 2 (iteritems, u''): a dict iterates in an order    *)
(* that the program does not control, so every loop over a dict takes its  *)
(* order as a nondeterministic input; None compares below every integer.   *)
(***************************************************************************)
EXTENDS Integers, Sequences, FiniteSets, TLC

VARIABLES
    request,          \* the FetchRequest built with add
    response,         \* the FetchResponse bound to request
    parsed_request,   \* a FetchRequest on which parseExtensionArgs is called
    parsed_response,  \* a FetchResponse on which parseExtensionArgs is called
    wire,             \* the arguments received from the peer
    last              \* the last call: op, its name; err, "ok" or the exception
                      \* raised; arg, the type_uri it was given (for addValue
                      \* and setValues, with the number of values given);
                      \* value, what it returned (None, <<dict>> or <<object>>);
                      \* ax_args, the local mapping a serializer had built
                      \* when it ended

vars == <<request, response, parsed_request, parsed_response, wire, last>>

(***************************************************************************)
(* Bounds                                                                  *)
(***************************************************************************)
NumTypes == 2
MaxCount == 2
MaxValues == 2

(***************************************************************************)
(* Python values                                                           *)
(***************************************************************************)
None == <<>>
Some(x) == <<x>>

\* bool(o) for an optional string: None and '' are false
Truthy(o) == o /= None /\ o[1] /= ""

Digits == <<"0", "1", "2", "3", "4", "5", "6", "7", "8", "9">>

RECURSIVE str(_)
\* str(n) for an int
str(n) ==
    IF n < 0 THEN "-" \o str(-n)
    ELSE IF n < 10 THEN Digits[n + 1]
    ELSE str(n \div 10) \o Digits[(n % 10) + 1]

Char(s, i) == SubSeq(s, i, i)

IsDigit(c) == \E d \in 0..9 : Digits[d + 1] = c

DigitVal(c) == CHOOSE d \in 0..9 : Digits[d + 1] = c

RECURSIVE AllDigits(_, _)
AllDigits(s, i) == i > Len(s) \/ (IsDigit(Char(s, i)) /\ AllDigits(s, i + 1))

RECURSIVE DigitsValue(_, _, _)
DigitsValue(s, i, acc) ==
    IF i > Len(s) THEN acc
    ELSE DigitsValue(s, i + 1, 10 * acc + DigitVal(Char(s, i)))

HasSign(s) == Len(s) >= 1 /\ Char(s, 1) \in {"-", "+"}

\* int(s) succeeds on an optional sign followed by one or more digits
IsInt(s) ==
    LET first == IF HasSign(s) THEN 2 ELSE 1
    IN  Len(s) >= first /\ AllDigits(s, first)

int(s) ==
    LET first == IF HasSign(s) THEN 2 ELSE 1
        magnitude == DigitsValue(s, first, 0)
    IN  IF HasSign(s) /\ Char(s, 1) = "-" THEN 0 - magnitude ELSE magnitude

startswith(s, prefix) ==
    Len(s) >= Len(prefix) /\ SubSeq(s, 1, Len(prefix)) = prefix

\* s[n:]
SliceFrom(s, n) == SubSeq(s, n + 1, Len(s))

RECURSIVE splitFrom(_, _, _, _)
splitFrom(s, sep, i, cur) ==
    IF i > Len(s) THEN <<cur>>
    ELSE IF Char(s, i) = sep THEN <<cur>> \o splitFrom(s, sep, i + 1, "")
    ELSE splitFrom(s, sep, i + 1, cur \o Char(s, i))

\* s.split(sep) for a one-character separator
split(s, sep) == splitFrom(s, sep, 1, "")

RECURSIVE join(_, _)
\* sep.join(list)
join(sep, list) ==
    IF Len(list) = 0 THEN ""
    ELSE IF Len(list) = 1 THEN list[1]
    ELSE list[1] \o sep \o join(sep, Tail(list))

EmptyDict == <<>>

\* d.get(k)
get(d, k) == IF k \in DOMAIN d THEN Some(d[k]) ELSE None

\* d[k] = v
setitem(d, k, v) == (k :> v) @@ d

\* the orders in which a dict with key set S may be iterated
Orders(S) ==
    {o \in [1..Cardinality(S) -> S] : \A i, j \in 1..Cardinality(S) : i /= j => o[i] /= o[j]}

Range(seq) == {seq[i] : i \in 1..Len(seq)}

(***************************************************************************)
(* openid.message.NamespaceMap: the alias registry the codec consumes      *)
(***************************************************************************)
NamespaceMap == [alias_to_namespace |-> EmptyDict, namespace_to_alias |-> EmptyDict]

addAlias(nm, namespace_uri, desired_alias) ==
    IF /\ desired_alias \in DOMAIN nm.alias_to_namespace
       /\ nm.alias_to_namespace[desired_alias] /= namespace_uri
    THEN [err |-> "KeyError", nm |-> nm, alias |-> desired_alias]
    ELSE IF /\ namespace_uri \in DOMAIN nm.namespace_to_alias
            /\ nm.namespace_to_alias[namespace_uri] /= desired_alias
    THEN [err |-> "KeyError", nm |-> nm, alias |-> desired_alias]
    ELSE [err |-> "ok",
          nm |-> [alias_to_namespace |-> setitem(nm.alias_to_namespace, desired_alias, namespace_uri),
                  namespace_to_alias |-> setitem(nm.namespace_to_alias, namespace_uri, desired_alias)],
          alias |-> desired_alias]

NamespaceMap_add(nm, namespace_uri) ==
    IF namespace_uri \in DOMAIN nm.namespace_to_alias
    THEN [err |-> "ok", nm |-> nm, alias |-> nm.namespace_to_alias[namespace_uri]]
    ELSE LET n == Cardinality(DOMAIN nm.alias_to_namespace)
             i == CHOOSE k \in 0..n :
                    /\ ("ext" \o str(k)) \notin DOMAIN nm.alias_to_namespace
                    /\ \A j \in 0..(k - 1) : ("ext" \o str(j)) \in DOMAIN nm.alias_to_namespace
         IN  addAlias(nm, namespace_uri, "ext" \o str(i))

getNamespaceURI(nm, alias) == get(nm.alias_to_namespace, alias)

iterNamespaceURIs(nm) == DOMAIN nm.namespace_to_alias

(***************************************************************************)
(* AXMessage                                                               *)
(***************************************************************************)
FetchRequest_mode == "fetch_request"
FetchResponse_mode == "fetch_response"

\* a mode check that lets a missing mode key pass
checkMode_raises_present(mode, ax_args) ==
    "mode" \in DOMAIN ax_args /\ ax_args["mode"] /= mode

\* TRUE when _checkMode raises AXError
checkMode_raises(mode, ax_args) == get(ax_args, "mode") /= Some(mode)

newArgs(mode) == setitem(EmptyDict, "mode", mode)

(***************************************************************************)
(* AttrInfo                                                                *)
(***************************************************************************)
AttrInfo(type_uri, count, required, alias) ==
    [type_uri |-> type_uri, count |-> count, required |-> required, alias |-> alias]

(***************************************************************************)
(* toTypeURIs                                                              *)
(***************************************************************************)
RECURSIVE toTypeURIs_loop(_, _, _)
toTypeURIs_loop(namespace_map, alias_list, uris) ==
    IF Len(alias_list) = 0 THEN [err |-> "ok", uris |-> uris]
    ELSE LET type_uri == getNamespaceURI(namespace_map, Head(alias_list))
         IN  IF type_uri = None
             THEN [err |-> "KeyError", uris |-> uris]
             ELSE toTypeURIs_loop(namespace_map, Tail(alias_list), Append(uris, type_uri[1]))

toTypeURIs(namespace_map, alias_list_s) ==
    IF Truthy(alias_list_s)
    THEN toTypeURIs_loop(namespace_map, split(alias_list_s[1], ","), <<>>)
    ELSE [err |-> "ok", uris |-> <<>>]

(***************************************************************************)
(* FetchRequest                                                            *)
(***************************************************************************)
FetchRequest(update_url) == [requested_attributes |-> EmptyDict, update_url |-> update_url]

\* add without the duplicate check: the later descriptor replaces the earlier
FetchRequest_add_overwrite(self, attribute) ==
    [err |-> "ok",
     self |-> [self EXCEPT !.requested_attributes =
                   setitem(self.requested_attributes, attribute.type_uri, attribute)]]

FetchRequest_add(self, attribute) ==
    IF attribute.type_uri \in DOMAIN self.requested_attributes
    THEN [err |-> "KeyError", self |-> self]
    ELSE [err |-> "ok",
          self |-> [self EXCEPT !.requested_attributes =
                        setitem(self.requested_attributes, attribute.type_uri, attribute)]]

\* alias resolution that hides a conflict and generates a new alias on the fly
FetchRequest_resolveAlias_hidden(aliases, type_uri, attribute) ==
    IF attribute.alias = None \/ addAlias(aliases, type_uri, attribute.alias[1]).err /= "ok"
    THEN NamespaceMap_add(aliases, type_uri)
    ELSE addAlias(aliases, type_uri, attribute.alias[1])

\* the alias of one descriptor (FetchRequest and FetchResponse serializers)
FetchRequest_resolveAlias(aliases, type_uri, attribute) ==
    IF attribute.alias = None
    THEN NamespaceMap_add(aliases, type_uri)
    ELSE addAlias(aliases, type_uri, attribute.alias[1])

RECURSIVE FetchRequest_getExtensionArgs_loop(_, _, _)
\* the loop over requested_attributes.iteritems(), in the given order
FetchRequest_getExtensionArgs_loop(self, order, st) ==
    IF Len(order) = 0 THEN st
    ELSE LET type_uri == Head(order)
             attribute == self.requested_attributes[type_uri]
             r == FetchRequest_resolveAlias(st.aliases, type_uri, attribute)
         IN  IF r.err /= "ok" THEN [st EXCEPT !.err = r.err]
             ELSE LET alias == r.alias
                      with_count ==
                          IF attribute.count /= None
                          THEN setitem(st.ax_args, "count." \o alias, str(attribute.count[1]))
                          ELSE st.ax_args
                  IN  FetchRequest_getExtensionArgs_loop(self, Tail(order),
                          [err |-> "ok",
                           aliases |-> r.nm,
                           required |-> IF attribute.required
                                        THEN Append(st.required, alias) ELSE st.required,
                           if_available |-> IF attribute.required
                                            THEN st.if_available ELSE Append(st.if_available, alias),
                           ax_args |-> setitem(with_count, "type." \o alias, type_uri)])

FetchRequest_getExtensionArgs(self, order) ==
    LET st == FetchRequest_getExtensionArgs_loop(self, order,
                  [err |-> "ok", aliases |-> NamespaceMap, required |-> <<>>,
                   if_available |-> <<>>, ax_args |-> newArgs(FetchRequest_mode)])
        with_required ==
            IF Len(st.required) > 0
            THEN setitem(st.ax_args, "required", join(",", st.required))
            ELSE st.ax_args
        with_if_available ==
            IF Len(st.if_available) > 0
            THEN setitem(with_required, "if_available", join(",", st.if_available))
            ELSE with_required
    IN  IF st.err /= "ok" THEN [err |-> st.err, value |-> None]
        ELSE [err |-> "ok", value |-> Some(with_if_available)]

TypeKeys(ax_args) == {key \in DOMAIN ax_args : startswith(key, "type.")}

RECURSIVE FetchRequest_parseExtensionArgs_loop(_, _, _)
\* the loop over ax_args.iteritems(); order lists the 'type.' keys in
\* iteration order (every other key is skipped by the loop)
FetchRequest_parseExtensionArgs_loop(ax_args, order, st) ==
    IF Len(order) = 0 THEN st
    ELSE LET key == Head(order)
             alias == SliceFrom(key, 5)
             type_uri == ax_args[key]
             r == addAlias(st.aliases, type_uri, alias)
             count_s == get(ax_args, "count." \o alias)
         IN  IF r.err /= "ok" THEN [st EXCEPT !.err = r.err]
             ELSE IF Truthy(count_s) /\ ~IsInt(count_s[1])
             THEN [st EXCEPT !.err = "ValueError", !.aliases = r.nm]
             ELSE LET count == IF Truthy(count_s) THEN Some(int(count_s[1])) ELSE None
                      a == FetchRequest_add(st.self, AttrInfo(type_uri, count, FALSE, Some(alias)))
                  IN  IF a.err /= "ok"
                      THEN [err |-> a.err, aliases |-> r.nm, self |-> st.self]
                      ELSE FetchRequest_parseExtensionArgs_loop(ax_args, Tail(order),
                               [err |-> "ok", aliases |-> r.nm, self |-> a.self])

\* for type_uri in required: self.requested_attributes[type_uri].required = True
MarkRequired(self, required) ==
    [self EXCEPT !.requested_attributes =
        [u \in DOMAIN self.requested_attributes |->
            IF u \in Range(required)
            THEN [self.requested_attributes[u] EXCEPT !.required = TRUE]
            ELSE self.requested_attributes[u]]]

\* the requiredness check with its membership test the wrong way round
NotListed_swapped(aliases, all_type_uris) ==
    \E type_uri \in Range(all_type_uris) : type_uri \notin iterNamespaceURIs(aliases)

\* TRUE when some registered type URI is in neither list
NotListed(aliases, all_type_uris) ==
    \E type_uri \in iterNamespaceURIs(aliases) : type_uri \notin Range(all_type_uris)

FetchRequest_parseExtensionArgs(self, ax_args, order) ==
    IF checkMode_raises(FetchRequest_mode, ax_args)
    THEN [err |-> "AXError", self |-> self]
    ELSE
    LET st == FetchRequest_parseExtensionArgs_loop(ax_args, order,
                  [err |-> "ok", aliases |-> NamespaceMap, self |-> self])
        required == toTypeURIs(st.aliases, get(ax_args, "required"))
        marked == MarkRequired(st.self, required.uris)
        if_available == toTypeURIs(st.aliases, get(ax_args, "if_available"))
        all_type_uris == required.uris \o if_available.uris
    IN  IF st.err /= "ok" THEN [err |-> st.err, self |-> st.self]
        ELSE IF required.err /= "ok" THEN [err |-> required.err, self |-> st.self]
        ELSE IF if_available.err /= "ok" THEN [err |-> if_available.err, self |-> marked]
        ELSE IF NotListed(st.aliases, all_type_uris)
        THEN [err |-> "ValueError", self |-> marked]
        ELSE [err |-> "ok", self |-> [marked EXCEPT !.update_url = get(ax_args, "update_url")]]

(***************************************************************************)
(* FetchResponse                                                           *)
(***************************************************************************)
\* FetchResponse(request=None)
FetchResponse_unbound == [data |-> EmptyDict, update_url |-> None]

\* FetchResponse(request): the loop over the request yields its type URIs
\* (FetchRequest.iter)
FetchResponse(req) ==
    [data |-> [type_uri \in DOMAIN req.requested_attributes |-> <<>>],
     update_url |-> req.update_url]

\* n > count as Python 2 orders them: None sorts below every int
PyGreater(n, count) == IF count = None THEN TRUE ELSE n > count[1]

\* n == count
PyEqual(n, count) == count /= None /\ n = count[1]

\* addValue whose limit test is > where the code has ==
FetchResponse_addValue_greater(self, req, type_uri, value) ==
    IF type_uri \notin DOMAIN req.requested_attributes \/ type_uri \notin DOMAIN self.data
    THEN [err |-> "KeyError", self |-> self]
    ELSE IF PyGreater(Len(self.data[type_uri]), req.requested_attributes[type_uri].count)
    THEN [err |-> "ValueError", self |-> self]
    ELSE [err |-> "ok", self |-> [self EXCEPT !.data[type_uri] = Append(@, value)]]

FetchResponse_addValue(self, req, type_uri, value) ==
    IF type_uri \notin DOMAIN req.requested_attributes
    THEN [err |-> "KeyError", self |-> self]
    ELSE LET num_allowed == req.requested_attributes[type_uri].count
         IN  IF type_uri \notin DOMAIN self.data
             THEN [err |-> "KeyError", self |-> self]
             ELSE IF PyEqual(Len(self.data[type_uri]), num_allowed)
             THEN [err |-> "ValueError", self |-> self]
             ELSE [err |-> "ok",
                   self |-> [self EXCEPT !.data[type_uri] = Append(@, value)]]

FetchResponse_setValues(self, req, type_uri, values) ==
    IF type_uri \notin DOMAIN req.requested_attributes
    THEN [err |-> "KeyError", self |-> self]
    ELSE LET num_set == Len(values)
             num_allowed == req.requested_attributes[type_uri].count
         IN  IF PyGreater(num_set, num_allowed)
             THEN [err |-> "ValueError", self |-> self]
             ELSE IF type_uri \notin DOMAIN self.data
             THEN [err |-> "KeyError", self |-> self]
             ELSE [err |-> "ok", self |-> [self EXCEPT !.data[type_uri] = values]]

RECURSIVE FetchResponse_emitValues(_, _, _, _)
\* for i, value in enumerate(values): ax_args['value.%s.%d' % (alias, i + 1)] = value
FetchResponse_emitValues(ax_args, alias, values, i) ==
    IF i >= Len(values) THEN ax_args
    ELSE FetchResponse_emitValues(
             setitem(ax_args, "value." \o alias \o "." \o str(i + 1), values[i + 1]),
             alias, values, i + 1)

RECURSIVE FetchResponse_getExtensionArgs_loop(_, _, _, _)
\* the loop over request.requested_attributes.iteritems(), in the given order
FetchResponse_getExtensionArgs_loop(self, req, order, st) ==
    IF Len(order) = 0 THEN st
    ELSE LET type_uri == Head(order)
             attr_request == req.requested_attributes[type_uri]
             r == FetchRequest_resolveAlias(st.aliases, type_uri, attr_request)
         IN  IF type_uri \notin DOMAIN self.data THEN [st EXCEPT !.err = "KeyError"]
             ELSE IF r.err /= "ok" THEN [st EXCEPT !.err = r.err]
             ELSE LET values == self.data[type_uri]
                      alias == r.alias
                      emitted ==
                          IF attr_request.count = None
                          THEN setitem(st.ax_args, "value." \o alias,
                                       IF Len(values) = 0 THEN "" ELSE values[1])
                          ELSE setitem(FetchResponse_emitValues(st.ax_args, alias, values, 0),
                                       "count." \o alias, str(Len(values)))
                  IN  IF PyGreater(Len(values), attr_request.count)
                      THEN [st EXCEPT !.err = "ValueError", !.aliases = r.nm]
                      ELSE IF attr_request.count = None /\ Len(values) > 1
                      THEN [st EXCEPT !.err = "ValueError", !.aliases = r.nm]
                      ELSE FetchResponse_getExtensionArgs_loop(self, req, Tail(order),
                               [err |-> "ok", aliases |-> r.nm,
                                ax_args |-> setitem(emitted, "type." \o alias, type_uri)])

\* value is what the method returns: it ends without a return statement
FetchResponse_getExtensionArgs(self, req, order) ==
    LET start == IF Truthy(self.update_url)
                 THEN setitem(newArgs(FetchResponse_mode), "update_url", self.update_url[1])
                 ELSE newArgs(FetchResponse_mode)
        st == FetchResponse_getExtensionArgs_loop(self, req, order,
                  [err |-> "ok", aliases |-> NamespaceMap, ax_args |-> start])
    IN  IF st.err /= "ok" THEN [err |-> st.err, value |-> None, ax_args |-> None]
        ELSE [err |-> "ok", value |-> None, ax_args |-> Some(st.ax_args)]

(***************************************************************************)
(* parseAXValues                                                           *)
(***************************************************************************)
RECURSIVE parseAXValues_aliases(_, _, _)
\* the first loop: every 'type.' key registers its alias
parseAXValues_aliases(ax_args, order, st) ==
    IF Len(order) = 0 \/ st.err /= "ok" THEN st
    ELSE LET key == Head(order)
             r == addAlias(st.nm, ax_args[key], SliceFrom(key, 5))
         IN  parseAXValues_aliases(ax_args, Tail(order), [err |-> r.err, nm |-> r.nm])

RECURSIVE parseAXValues_bounded_short(_, _, _, _, _)
\* the bounded path with range(1, count): the last value is never read
parseAXValues_bounded_short(ax_args, alias, count, i, values) ==
    IF i >= count THEN [err |-> "ok", values |-> values]
    ELSE LET value_key == "value." \o alias \o "." \o str(i)
         IN  IF value_key \notin DOMAIN ax_args
             THEN [err |-> "KeyError", values |-> values]
             ELSE parseAXValues_bounded_short(ax_args, alias, count, i + 1,
                                              Append(values, ax_args[value_key]))

RECURSIVE parseAXValues_bounded(_, _, _, _, _)
\* for i in range(1, count + 1): values.append(ax_args['value.%s.%d' % (alias, i)])
parseAXValues_bounded(ax_args, alias, count, i, values) ==
    IF i > count THEN [err |-> "ok", values |-> values]
    ELSE LET value_key == "value." \o alias \o "." \o str(i)
         IN  IF value_key \notin DOMAIN ax_args
             THEN [err |-> "KeyError", values |-> values]
             ELSE parseAXValues_bounded(ax_args, alias, count, i + 1,
                                        Append(values, ax_args[value_key]))

\* the body of the second loop for one (type_uri, alias)
parseAXValues_one(ax_args, alias) ==
    IF ("count." \o alias) \notin DOMAIN ax_args
    THEN IF ("value." \o alias) \notin DOMAIN ax_args
         THEN [err |-> "KeyError", singleton |-> TRUE, values |-> <<>>]
         ELSE [err |-> "ok", singleton |-> TRUE,
               values |-> IF ax_args["value." \o alias] = ""
                          THEN <<>> ELSE <<ax_args["value." \o alias]>>]
    ELSE LET count_s == ax_args["count." \o alias]
         IN  IF ~IsInt(count_s)
             THEN [err |-> "ValueError", singleton |-> FALSE, values |-> <<>>]
             ELSE LET r == parseAXValues_bounded(ax_args, alias, int(count_s), 1, <<>>)
                  IN  [err |-> r.err, singleton |-> FALSE, values |-> r.values]

RECURSIVE parseAXValues_loop(_, _, _, _)
\* the second loop, over aliases.iteritems() in the given order
parseAXValues_loop(ax_args, nm, uri_order, st) ==
    IF Len(uri_order) = 0 \/ st.err /= "ok" THEN st
    ELSE LET type_uri == Head(uri_order)
             r == parseAXValues_one(ax_args, nm.namespace_to_alias[type_uri])
         IN  parseAXValues_loop(ax_args, nm, Tail(uri_order),
                 [err |-> r.err,
                  singletons |-> IF r.singleton
                                 THEN Append(st.singletons, type_uri) ELSE st.singletons,
                  data |-> IF r.err = "ok" THEN setitem(st.data, type_uri, r.values) ELSE st.data])

\* order: the 'type.' keys as ax_args.iteritems() yields them; uri_order: the
\* type URIs as aliases.iteritems() yields them
parseAXValues(ax_args, order, uri_order) ==
    LET reg == parseAXValues_aliases(ax_args, order, [err |-> "ok", nm |-> NamespaceMap])
    IN  IF reg.err /= "ok"
        THEN [err |-> reg.err, singletons |-> <<>>, data |-> EmptyDict]
        ELSE parseAXValues_loop(ax_args, reg.nm, uri_order,
                 [err |-> "ok", singletons |-> <<>>, data |-> EmptyDict])

\* the type URIs the 'type.' keys of ax_args bind
TypeValues(ax_args) == {ax_args[key] : key \in TypeKeys(ax_args)}

FetchResponse_parseExtensionArgs(self, ax_args, order, uri_order) ==
    IF checkMode_raises(FetchResponse_mode, ax_args)
    THEN [err |-> "AXError", self |-> self]
    ELSE LET r == parseAXValues(ax_args, order, uri_order)
         IN  IF r.err /= "ok" THEN [err |-> r.err, self |-> self]
             ELSE [err |-> "ok",
                   self |-> [data |-> r.data, update_url |-> get(ax_args, "update_url")]]

(***************************************************************************)
(* Inputs                                                                  *)
(***************************************************************************)
TypeURIs == {"u" \o str(i) : i \in 1..NumTypes}
Counts == {None} \cup {Some(n) : n \in 1..MaxCount}
\* the counts of the descriptors a request is built from: unset, one, many
RequestCounts == {None, Some(1), Some(MaxCount)}
Aliases == {None, Some("a"), Some("ext0")}
UpdateURLs == {None, Some("http://rp/update")}
AttrInfos ==
    {AttrInfo(t, c, r, a) : t \in TypeURIs, c \in RequestCounts, r \in BOOLEAN, a \in Aliases}

Call(op, err, arg, value, ax_args) ==
    [op |-> op, err |-> err, arg |-> arg, value |-> value, ax_args |-> ax_args]

(***************************************************************************)
(* SpecReq: a FetchRequest is built with add and serialized, and the       *)
(* arguments it returned are parsed into a fresh FetchRequest              *)
(***************************************************************************)
InitReq ==
    /\ request \in {FetchRequest(u) : u \in UpdateURLs}
    /\ response = FetchResponse_unbound
    /\ parsed_request = FetchRequest(None)
    /\ parsed_response = FetchResponse_unbound
    /\ wire = EmptyDict
    /\ last = Call("init", "ok", "", None, None)

Call_FetchRequest_add ==
    \E attribute \in AttrInfos :
        LET r == FetchRequest_add(request, attribute)
        IN  /\ request' = r.self
            /\ last' = Call("FetchRequest.add", r.err, attribute.type_uri, None, None)
            /\ UNCHANGED <<response, parsed_request, parsed_response, wire>>

Call_FetchRequest_getExtensionArgs ==
    \E order \in Orders(DOMAIN request.requested_attributes) :
        LET r == FetchRequest_getExtensionArgs(request, order)
        IN  /\ last' = Call("FetchRequest.getExtensionArgs", r.err, "", r.value, r.value)
            /\ UNCHANGED <<request, response, parsed_request, parsed_response, wire>>

\* fromOpenIDRequest on the message that carries the arguments the
\* serializer has just returned: self = cls(); self.parseExtensionArgs(ax_args);
\* return self
Call_FetchRequest_fromOpenIDRequest ==
    /\ last.op = "FetchRequest.getExtensionArgs"
    /\ last.err = "ok"
    /\ \E order \in Orders(TypeKeys(last.value[1])) :
        LET r == FetchRequest_parseExtensionArgs(FetchRequest(None), last.value[1], order)
        IN  /\ last' = Call("FetchRequest.fromOpenIDRequest", r.err, "",
                            IF r.err = "ok" THEN Some(r.self) ELSE None, None)
            /\ UNCHANGED <<request, response, parsed_request, parsed_response, wire>>

NextReq ==
    \/ Call_FetchRequest_add
    \/ Call_FetchRequest_getExtensionArgs
    \/ Call_FetchRequest_fromOpenIDRequest

SpecReq == InitReq /\ [][NextReq]_vars

\* C1: a FetchRequest built with add, serialized and parsed into a fresh
\* FetchRequest comes back with the same type_uris, the same required flag
\* and count for each, and the same update_url.
C1_RequestRoundTrip ==
    last.op = "FetchRequest.fromOpenIDRequest" =>
        /\ last.err = "ok"
        /\ LET parsed == last.value[1]
           IN  /\ DOMAIN parsed.requested_attributes = DOMAIN request.requested_attributes
               /\ \A type_uri \in DOMAIN request.requested_attributes :
                    /\ parsed.requested_attributes[type_uri].required
                         = request.requested_attributes[type_uri].required
                    /\ parsed.requested_attributes[type_uri].count
                         = request.requested_attributes[type_uri].count
               /\ parsed.update_url = request.update_url

\* the part of C1 that the code keeps: everything but update_url
C1_RoundTripButUpdateURL ==
    last.op = "FetchRequest.fromOpenIDRequest" =>
        /\ last.err = "ok"
        /\ LET parsed == last.value[1]
           IN  /\ DOMAIN parsed.requested_attributes = DOMAIN request.requested_attributes
               /\ \A type_uri \in DOMAIN request.requested_attributes :
                    /\ parsed.requested_attributes[type_uri].required
                         = request.requested_attributes[type_uri].required
                    /\ parsed.requested_attributes[type_uri].count
                         = request.requested_attributes[type_uri].count
               /\ parsed.update_url = None

(***************************************************************************)
(* SpecResp: a FetchResponse bound to a request is filled with addValue    *)
(* and setValues and serialized, and what the serializer returned is       *)
(* parsed into an unbound FetchResponse                                    *)
(***************************************************************************)
Values == {"v", "w"}

\* the lists setValues is given: up to one value more than any count allows
ValueLists == UNION {[1..n -> Values] : n \in 0..(MaxCount + 1)}

ResponseTypeURIs == {"u1", "u2"}

\* the requests a response is bound to: what add can build from optional
\* descriptors (a response never reads the required flag)
BoundRequests ==
    {[requested_attributes |-> f, update_url |-> u] :
        f \in UNION {[S -> {AttrInfo(t, c, FALSE, a) :
                                t \in S, c \in Counts, a \in {None, Some("a")}}] :
                        S \in SUBSET ResponseTypeURIs},
        u \in UpdateURLs}

InitResp ==
    /\ request \in {r \in BoundRequests :
                      \A t \in DOMAIN r.requested_attributes :
                          r.requested_attributes[t].type_uri = t}
    /\ response = FetchResponse(request)
    /\ parsed_request = FetchRequest(None)
    /\ parsed_response = FetchResponse_unbound
    /\ wire = EmptyDict
    /\ last = Call("init", "ok", "", None, None)

Call_FetchResponse_addValue ==
    \E type_uri \in ResponseTypeURIs, value \in Values :
        LET r == FetchResponse_addValue(response, request, type_uri, value)
        IN  /\ r.err = "ok" => Len(r.self.data[type_uri]) <= MaxValues
            /\ response' = r.self
            /\ last' = Call("FetchResponse.addValue", r.err, <<type_uri, 1>>, None, None)
            /\ UNCHANGED <<request, parsed_request, parsed_response, wire>>

Call_FetchResponse_setValues ==
    \E type_uri \in ResponseTypeURIs, values \in ValueLists :
        LET r == FetchResponse_setValues(response, request, type_uri, values)
        IN  /\ response' = r.self
            /\ last' = Call("FetchResponse.setValues", r.err, <<type_uri, Len(values)>>, None, None)
            /\ UNCHANGED <<request, parsed_request, parsed_response, wire>>

Call_FetchResponse_getExtensionArgs ==
    \E order \in Orders(DOMAIN request.requested_attributes) :
        LET r == FetchResponse_getExtensionArgs(response, request, order)
        IN  /\ last' = Call("FetchResponse.getExtensionArgs", r.err, "", r.value, r.ax_args)
            /\ UNCHANGED <<request, response, parsed_request, parsed_response, wire>>

\* FetchResponse().parseExtensionArgs(x), x being what the serializer has
\* just returned; None has no get method
Call_FetchResponse_parseReturned ==
    /\ last.op = "FetchResponse.getExtensionArgs"
    /\ last.err = "ok"
    /\ LET keys == IF last.value = None THEN {} ELSE TypeKeys(last.value[1])
           uris == IF last.value = None THEN {} ELSE TypeValues(last.value[1])
       IN  \E order \in Orders(keys), uri_order \in Orders(uris) :
            LET r == IF last.value = None
                     THEN [err |-> "AttributeError", self |-> FetchResponse_unbound]
                     ELSE FetchResponse_parseExtensionArgs(FetchResponse_unbound,
                                                           last.value[1], order, uri_order)
            IN  /\ last' = Call("FetchResponse.parseExtensionArgs", r.err, "",
                                IF r.err = "ok" THEN Some(r.self) ELSE None, None)
                /\ UNCHANGED <<request, response, parsed_request, parsed_response, wire>>

NextResp ==
    \/ Call_FetchResponse_addValue
    \/ Call_FetchResponse_setValues
    \/ Call_FetchResponse_getExtensionArgs
    \/ Call_FetchResponse_parseReturned

SpecResp == InitResp /\ [][NextResp]_vars

\* the count limit of a descriptor: its count, or 1 when the count is unset
Limit(attribute) == IF attribute.count = None THEN 1 ELSE attribute.count[1]

\* C2: serializing a bound FetchResponse hands back the mapping it built,
\* and parsing that mapping into an unbound FetchResponse yields the data
\* of the original.
C2_ResponseRoundTrip ==
    /\ (last.op = "FetchResponse.getExtensionArgs" /\ last.err = "ok") =>
           (last.value /= None /\ last.value = last.ax_args)
    /\ last.op = "FetchResponse.parseExtensionArgs" =>
           (last.err = "ok" /\ last.value[1].data = response.data)

\* C3: a bound FetchResponse never stores more values for a type_uri than
\* the descriptor's count, or than 1 when the count is unset.
C3_ValueCountInvariant ==
    \A type_uri \in DOMAIN response.data :
        type_uri \in DOMAIN request.requested_attributes =>
            Len(response.data[type_uri]) <= Limit(request.requested_attributes[type_uri])

\* two descriptors with different type_uris carry the same explicit alias
SameExplicitAlias(req) ==
    \E t1, t2 \in DOMAIN req.requested_attributes :
        /\ t1 /= t2
        /\ req.requested_attributes[t1].alias /= None
        /\ req.requested_attributes[t1].alias = req.requested_attributes[t2].alias

\* C4: with a declared count, addValue on a type_uri that already holds
\* count values and setValues with more than count values fail with the
\* limit-exceeded error (ValueError) and leave the response as it was.
C4_CountEnforcement ==
    [][/\ (/\ last'.op = "FetchResponse.addValue"
           /\ last'.arg[1] \in DOMAIN request.requested_attributes
           /\ last'.arg[1] \in DOMAIN response.data
           /\ request.requested_attributes[last'.arg[1]].count /= None
           /\ Len(response.data[last'.arg[1]])
                = request.requested_attributes[last'.arg[1]].count[1])
          => (last'.err = "ValueError" /\ response' = response)
       /\ (/\ last'.op = "FetchResponse.setValues"
           /\ last'.arg[1] \in DOMAIN request.requested_attributes
           /\ request.requested_attributes[last'.arg[1]].count /= None
           /\ last'.arg[2] > request.requested_attributes[last'.arg[1]].count[1])
          => (last'.err = "ValueError" /\ response' = response)]_vars

\* a call refused at the limit while values are stored: addValue on a full
\* type_uri, or setValues with one value too many
C4_Witness ==
    /\ last.op \in {"FetchResponse.addValue", "FetchResponse.setValues"}
    /\ last.err = "ValueError"
    /\ last.arg[1] \in DOMAIN request.requested_attributes
    /\ request.requested_attributes[last.arg[1]].count /= None
    /\ Len(response.data[last.arg[1]]) = request.requested_attributes[last.arg[1]].count[1]
    /\ (last.op = "FetchResponse.setValues" => last.arg[2] > Len(response.data[last.arg[1]]))

\* C5: when a bound FetchResponse is serialized, a descriptor with unset
\* count and no stored value is emitted as value.<alias> = '' without a
\* count.<alias> key, and one with a single stored value as value.<alias> =
\* that value.
C5_SingletonEncoding ==
    (/\ last.op = "FetchResponse.getExtensionArgs"
     /\ ~SameExplicitAlias(request)
     /\ \A t \in DOMAIN request.requested_attributes :
            Len(response.data[t]) <= Limit(request.requested_attributes[t]))
    => /\ last.err = "ok"
       /\ \A t \in DOMAIN request.requested_attributes :
            request.requested_attributes[t].count = None =>
                \E key \in TypeKeys(last.ax_args[1]) :
                    LET alias == SliceFrom(key, 5)
                    IN  /\ last.ax_args[1][key] = t
                        /\ ("count." \o alias) \notin DOMAIN last.ax_args[1]
                        /\ ("value." \o alias) \in DOMAIN last.ax_args[1]
                        /\ last.ax_args[1]["value." \o alias]
                             = IF Len(response.data[t]) = 0 THEN "" ELSE response.data[t][1]

C8_DuplicateAdd ==
    [][/\ (/\ last'.op = "FetchRequest.add"
           /\ last'.arg \in DOMAIN request.requested_attributes)
          => (last'.err = "KeyError" /\ request' = request)
       /\ \A t \in DOMAIN request.requested_attributes :
            /\ t \in DOMAIN request'.requested_attributes
            /\ request'.requested_attributes[t] = request.requested_attributes[t]
       /\ \A t \in DOMAIN request'.requested_attributes :
            request'.requested_attributes[t].type_uri = t]_vars

C8_Witness ==
    /\ last.op = "FetchRequest.add"
    /\ last.err = "KeyError"
    /\ last.arg \in DOMAIN request.requested_attributes
    /\ Cardinality(DOMAIN request.requested_attributes) >= 2

(***************************************************************************)
(* SpecParse: arguments received from the peer are parsed by               *)
(* FetchRequest.parseExtensionArgs and FetchResponse.parseExtensionArgs,   *)
(* on fresh objects and on objects that already hold something             *)
(***************************************************************************)
\* the dict with the keys of f that are not None
MakeDict(f) == [key \in {k \in DOMAIN f : f[k] /= None} |-> f[key][1]]

Modes == {None, Some(FetchRequest_mode), Some(FetchResponse_mode)}

RequestWires ==
    {MakeDict([mode |-> m, update_url |-> u, required |-> r, if_available |-> i]
              @@ ("type.a" :> ta) @@ ("type.b" :> tb) @@ ("count.a" :> ca)) :
        m \in Modes, u \in UpdateURLs,
        r \in {None, Some("a"), Some("a,b"), Some("c")},
        i \in {None, Some("a"), Some("b")},
        ta \in {None, Some("u1")},
        tb \in {None, Some("u1"), Some("u2")},
        ca \in {None, Some(""), Some("2"), Some("x")}}

ResponseWires ==
    {MakeDict([mode |-> m, update_url |-> u]
              @@ ("type.a" :> ta) @@ ("type.b" :> tb) @@ ("count.a" :> ca)
              @@ ("value.a" :> va) @@ ("value.a.1" :> va1) @@ ("value.a.2" :> va2)
              @@ ("value.b" :> vb)) :
        m \in Modes, u \in UpdateURLs,
        ta \in {None, Some("u1")},
        tb \in {None, Some("u1"), Some("u2")},
        ca \in {None, Some("0"), Some("2"), Some("-1"), Some("x")},
        va \in {None, Some(""), Some("v")},
        va1 \in {None, Some("v")},
        va2 \in {None, Some("w")},
        vb \in {None, Some("w")}}

\* a request and a response that already hold something: FetchRequest(url)
\* after add(AttrInfo('u1', count=1, required=True)), and the response bound
\* to it after addValue('u1', 'old')
HeldRequest ==
    FetchRequest_add(FetchRequest(Some("http://rp/old")),
                     AttrInfo("u1", Some(1), TRUE, None)).self

HeldResponse ==
    FetchResponse_addValue(FetchResponse(HeldRequest), HeldRequest, "u1", "old").self

InitParse ==
    /\ wire \in RequestWires \cup ResponseWires
    /\ request = FetchRequest(None)
    /\ response = FetchResponse_unbound
    /\ \/ parsed_request = FetchRequest(None) /\ parsed_response = FetchResponse_unbound
       \/ parsed_request = HeldRequest /\ parsed_response = HeldResponse
    /\ last = Call("init", "ok", "", None, None)

Call_FetchRequest_parseExtensionArgs ==
    \E order \in Orders(TypeKeys(wire)) :
        LET r == FetchRequest_parseExtensionArgs(parsed_request, wire, order)
        IN  /\ parsed_request' = r.self
            /\ last' = Call("FetchRequest.parseExtensionArgs", r.err, "", None, None)
            /\ UNCHANGED <<request, response, parsed_response, wire>>

Call_FetchResponse_parseExtensionArgs ==
    \E order \in Orders(TypeKeys(wire)), uri_order \in Orders(TypeValues(wire)) :
        LET r == FetchResponse_parseExtensionArgs(parsed_response, wire, order, uri_order)
        IN  /\ parsed_response' = r.self
            /\ last' = Call("FetchResponse.parseExtensionArgs", r.err, "", None, None)
            /\ UNCHANGED <<request, response, parsed_request, wire>>

\* parseAXValues(ax_args), returning (singletons, data)
Call_parseAXValues ==
    \E order \in Orders(TypeKeys(wire)), uri_order \in Orders(TypeValues(wire)) :
        LET r == parseAXValues(wire, order, uri_order)
        IN  /\ last' = Call("parseAXValues", r.err, "",
                            IF r.err = "ok"
                            THEN Some([singletons |-> r.singletons, data |-> r.data])
                            ELSE None,
                            None)
            /\ UNCHANGED <<request, response, parsed_request, parsed_response, wire>>

NextParse ==
    \/ Call_FetchRequest_parseExtensionArgs
    \/ Call_FetchResponse_parseExtensionArgs
    \/ Call_parseAXValues

SpecParse == InitParse /\ [][NextParse]_vars

\* alias is an item of the comma-separated list under key
Listed(ax_args, key, alias) ==
    key \in DOMAIN ax_args /\ alias \in Range(split(ax_args[key], ","))

\* C6: parsing fetch_request arguments in which some type.<alias> key has
\* its alias in neither the required nor the if_available list fails.
C6_RequirednessCompleteness ==
    (/\ last.op = "FetchRequest.parseExtensionArgs"
     /\ \E key \in TypeKeys(wire) :
            /\ ~Listed(wire, "required", SliceFrom(key, 5))
            /\ ~Listed(wire, "if_available", SliceFrom(key, 5)))
    => last.err /= "ok"

\* arguments with the right mode, without conflict among their type keys,
\* one alias in neither list: only the requiredness check refuses them
C6_Witness ==
    /\ last.op = "FetchRequest.parseExtensionArgs"
    /\ last.err = "ValueError"
    /\ "count.a" \notin DOMAIN wire
    /\ TypeKeys(wire) = {"type.a", "type.b"}
    /\ Listed(wire, "required", "a")
    /\ ~Listed(wire, "required", "b")
    /\ ~Listed(wire, "if_available", "b")

\* C9: parseExtensionArgs of a FetchRequest fails when mode is absent or
\* not 'fetch_request', and that of a FetchResponse when it is absent or not
\* 'fetch_response'; the failed call leaves the object as it was.
C9_ModeCheck ==
    [][/\ (/\ last'.op = "FetchRequest.parseExtensionArgs"
           /\ ("mode" \notin DOMAIN wire \/ wire["mode"] /= "fetch_request"))
          => (last'.err = "AXError" /\ parsed_request' = parsed_request)
       /\ (/\ last'.op = "FetchResponse.parseExtensionArgs"
           /\ ("mode" \notin DOMAIN wire \/ wire["mode"] /= "fetch_response"))
          => (last'.err = "AXError" /\ parsed_response' = parsed_response)]_vars

\* a parse refused for a missing mode on an object that holds something,
\* the arguments being otherwise parseable
C9_Witness ==
    /\ last.err = "AXError"
    /\ "mode" \notin DOMAIN wire
    /\ TypeKeys(wire) /= {}
    /\ "update_url" \in DOMAIN wire
    /\ \/ last.op = "FetchRequest.parseExtensionArgs" /\ parsed_request = HeldRequest
       \/ last.op = "FetchResponse.parseExtensionArgs" /\ parsed_response = HeldResponse

\* C10: a FetchRequest parse succeeds only when every alias of a
\* type.<alias> key is in exactly one of the required and if_available lists.
C10_ExactlyOneRequiredness ==
    (last.op = "FetchRequest.parseExtensionArgs" /\ last.err = "ok")
    => \A key \in TypeKeys(wire) :
           Listed(wire, "required", SliceFrom(key, 5))
               /= Listed(wire, "if_available", SliceFrom(key, 5))

\* the key 'value.<alias>.<i>'
ValueKey(alias, i) == "value." \o alias \o "." \o str(i)

\* what parseAXValues owes every alias bound by a type.<alias> key, the
\* counts it may accept being the decimal notations of the integers in Ns:
\* with a count.<alias> key, success means the count is some N of Ns, the
\* values are those of value.<alias>.1 .. value.<alias>.N in that order and
\* the type_uri is no singleton; a missing value key among the N means
\* failure; and a type_uri is a singleton exactly without a count.<alias> key
BoundedPath(Ns) ==
    last.op = "parseAXValues" =>
        \A key \in TypeKeys(wire) :
            LET alias == SliceFrom(key, 5)
                type_uri == wire[key]
                count_key == "count." \o alias
            IN  /\ (count_key \in DOMAIN wire /\ last.err = "ok") =>
                       \E N \in Ns :
                           /\ wire[count_key] = str(N)
                           /\ \A i \in 1..N : ValueKey(alias, i) \in DOMAIN wire
                           /\ last.value[1].data[type_uri]
                                = [i \in 1..N |-> wire[ValueKey(alias, i)]]
                           /\ type_uri \notin Range(last.value[1].singletons)
                /\ (/\ count_key \in DOMAIN wire
                    /\ \E N \in Ns : /\ wire[count_key] = str(N)
                                     /\ \E i \in 1..N : ValueKey(alias, i) \notin DOMAIN wire)
                   => last.err /= "ok"
                /\ last.err = "ok" =>
                       (type_uri \in Range(last.value[1].singletons)
                            <=> count_key \notin DOMAIN wire)

\* C11 (as stated): parseAXValues accepts a count only as a positive
\* integer N, returns exactly the values of value.<alias>.1 .. N in order,
\* fails when one of them is missing and keeps the type_uri out of the
\* singletons; a type_uri is a singleton exactly when its alias has no
\* count.<alias> key.
C11_BoundedPathPositive == BoundedPath(1..9)

\* C11 (amended): the same, the count being any integer N; for N <= 0 no
\* value key is read and the sequence returned is empty.
C11_BoundedPath == BoundedPath(-9..9)

\* a parse that returns two counted values in order beside a singleton
C11_Witness ==
    /\ last.op = "parseAXValues"
    /\ last.err = "ok"
    /\ get(wire, "count.a") = Some("2")
    /\ "type.a" \in DOMAIN wire
    /\ "type.b" \in DOMAIN wire
    /\ last.value[1].data[wire["type.a"]] = <<"v", "w">>
    /\ last.value[1].singletons = <<wire["type.b"]>>

====
